---- MODULE Spec2Model ----
(***************************************************************************)
(* Jumble Helper: the anagram index of src/src/wordmap.rs (WordMap,        *)
(* make_word_map, find_match) and the entry/answer loop of                 *)
(* src/src/main.rs (handle_keyboard_input, main).                          *)
(*                                                                         *)
(* A String is a sequence of code points (65 = 'A', 66 = 'B', ...).  An    *)
(* Option is a sequence of length at most one: None is << >>, Some(v) is   *)
(* << v >>.  A HashMap<String, Vec<String>> is a function whose domain is  *)
(* the set of keys present.                                                *)
(***************************************************************************)
EXTENDS Integers, Sequences, FiniteSets, TLC

VARIABLES
    words,         \* the lines of the word list given to make_word_map
    idx,           \* number of lines make_word_map has inserted so far
    word_map,      \* WordMap.inner
    queried,       \* TRUE once find_match has been called
    q,             \* find_match: the query of the last call
    minlen,        \* find_match: minlen of the last call
    maxlen,        \* find_match: maxlen of the last call
    matches,       \* find_match: what the last call returned (an Option)
    entry,         \* main: the text entered by the user
    answer,        \* main: the answer drawn below the entry
    entry_status,  \* main: what handle_keyboard_input returned last
    keys_up,       \* handle_keyboard_input: the keys released in the last frame
    c_word,        \* canonicalisation: a dictionary line
    c_q,           \* canonicalisation: a query
    sorted_word,   \* canonicalisation: the key of c_word (an Option)
    sorted_q       \* canonicalisation: the key of c_q (an Option)

vars == << words, idx, word_map, queried, q, minlen, maxlen, matches,
           entry, answer, entry_status, keys_up,
           c_word, c_q, sorted_word, sorted_q >>

indexVars == << words, idx, word_map >>
queryVars == << queried, q, minlen, maxlen, matches >>
mainVars  == << entry, answer, entry_status, keys_up >>
canonVars == << c_word, c_q, sorted_word, sorted_q >>

----------------------------------------------------------------------------
(* Bounds of the model *)

\* longest line / query of the index specification
MaxWordLen == 2
\* most lines in a word list of the index specification
MaxLines == 2
\* number of distinct letters in the canonicalisation specification
NumCanonLetters == 3
\* longest word in the canonicalisation specification
CanonMaxLen == 3
\* most keys released in one frame
MaxKeysUp == 2

(* Program constants *)

MIN_WORD_LENGTH == 4
MAX_WORD_LENGTH == 10
EntryMaxLen == 8

----------------------------------------------------------------------------
(* Helpers *)

None == << >>
Some(v) == << v >>

Range(s) == { s[i] : i \in DOMAIN s }

Min(a, b) == IF a <= b THEN a ELSE b

\* all sequences over S of length 0..n
SeqsUpTo(S, n) == UNION { [1..k -> S] : k \in 0..n }

\* number of occurrences of character c in w
Count(w, c) == Cardinality({ i \in DOMAIN w : w[i] = c })

\* w1 and w2 hold the same multiset of characters
SameMultiset(w1, w2) ==
    \A c \in Range(w1) \cup Range(w2) : Count(w1, c) = Count(w2, c)

IsAscending(s) == \A i \in 1..(Len(s) - 1) : s[i] <= s[i + 1]

----------------------------------------------------------------------------
(* wordmap.rs *)

RECURSIVE SortedInsert(_, _)
SortedInsert(c, s) ==
    IF s = << >> THEN << c >>
    ELSE IF c <= Head(s) THEN << c >> \o s
    ELSE << Head(s) >> \o SortedInsert(c, Tail(s))

\* a mutant of sorted: the characters go through a set, so repeats are lost
RECURSIVE sorted_dedup(_)
sorted_dedup(s) ==
    IF s = << >> THEN << >>
    ELSE LET rest == sorted_dedup(Tail(s))
         IN IF Head(s) \in Range(rest) THEN rest ELSE SortedInsert(Head(s), rest)

\* word.chars().sorted().collect::<String>()
RECURSIVE sorted(_)
sorted(s) ==
    IF s = << >> THEN << >>
    ELSE SortedInsert(Head(s), sorted(Tail(s)))

\* HashMap::entry(k).or_default(): the map with an empty Vec at k when k is absent
or_default(m, k) ==
    IF k \in DOMAIN m THEN m
    ELSE [ x \in DOMAIN m \cup {k} |-> IF x = k THEN << >> ELSE m[x] ]

\* a mutant of insert: the new word replaces the group
insert_overwrite(m, sorted_key, unsorted) ==
    [ x \in DOMAIN m \cup {sorted_key} |->
        IF x = sorted_key THEN << unsorted >> ELSE m[x] ]

\* a mutant of insert: a word already in the group is not added again
insert_unique(m, sorted_key, unsorted) ==
    LET d == or_default(m, sorted_key)
    IN IF unsorted \in Range(d[sorted_key]) THEN d
       ELSE [ d EXCEPT ![sorted_key] = Append(@, unsorted) ]

\* WordMap::insert
insert(m, sorted_key, unsorted) ==
    LET d == or_default(m, sorted_key)
    IN [ d EXCEPT ![sorted_key] = Append(@, unsorted) ]

\* a mutant of the loop body of make_word_map: the arguments of insert swapped
make_word_map_swapped(m, word) == insert(m, word, sorted(word))

\* the loop body of make_word_map, for one line
make_word_map_line(m, word) == insert(m, sorted(word), word)

\* make_word_map: the WordMap returned for the lines ws
RECURSIVE make_word_map(_)
make_word_map(ws) ==
    IF ws = << >> THEN << >>
    ELSE make_word_map_line(make_word_map(SubSeq(ws, 1, Len(ws) - 1)), ws[Len(ws)])

\* a mutant of find_match: no length gate
find_match_nogate(m, query, lo, hi) ==
    LET key == sorted(query)
    IN [ self |-> m,
         ret  |-> IF key \in DOMAIN m THEN Some(m[key]) ELSE None ]

\* a mutant of find_match: the upper bound is exclusive
find_match_exclusive(m, query, lo, hi) ==
    IF Len(query) < lo \/ Len(query) >= hi
    THEN [ self |-> m, ret |-> None ]
    ELSE LET key == sorted(query)
         IN [ self |-> m,
              ret  |-> IF key \in DOMAIN m THEN Some(m[key]) ELSE None ]

\* a mutant of find_match: the group is fetched with entry().or_default()
find_match_or_default(m, query, lo, hi) ==
    IF Len(query) < lo \/ Len(query) > hi
    THEN [ self |-> m, ret |-> None ]
    ELSE LET key == sorted(query)
             d   == or_default(m, key)
         IN [ self |-> d, ret |-> Some(d[key]) ]

\* WordMap::find_match(&self, q, minlen, maxlen): self after the call, and
\* the returned Option<&Vec<String>>
find_match(m, query, lo, hi) ==
    IF Len(query) < lo \/ Len(query) > hi
    THEN [ self |-> m, ret |-> None ]
    ELSE LET key == sorted(query)
         IN [ self |-> m,
              ret  |-> IF key \in DOMAIN m THEN Some(m[key]) ELSE None ]

----------------------------------------------------------------------------
(* main.rs *)

LetterKeys == { "A", "B" }
KeyCodes == LetterKeys \cup { "Backspace", "Delete", "Escape", "Space" }

\* the match of handle_keyboard_input: what one released key pushes
KeyChars(keycode) ==
    CASE keycode = "A" -> << 65 >>
      [] keycode = "B" -> << 66 >>
      [] OTHER -> << >>

RECURSIVE push_keys(_, _)
push_keys(e, ks) ==
    IF ks = << >> THEN e
    ELSE push_keys(e \o KeyChars(Head(ks)), Tail(ks))

\* String::pop
pop(e) == IF e = << >> THEN << >> ELSE SubSeq(e, 1, Len(e) - 1)

\* a mutant of keys_to_take: every released key is taken
keys_to_take_all(entry_len, limit, num_keys_up) == num_keys_up

\* entry_rem.min(num_keys_up); maxlen - entry_len wraps when entry_len > maxlen
keys_to_take(entry_len, limit, num_keys_up) ==
    IF entry_len <= limit THEN Min(limit - entry_len, num_keys_up)
    ELSE num_keys_up

\* handle_keyboard_input; keys_iter is keys_up in the order its iterator yields
handle_keyboard_input(e, limit, keys_iter) ==
    LET keys == Range(keys_iter)
        num_keys_up == Len(keys_iter)
    IN IF num_keys_up = 0 THEN [ entry |-> e, status |-> "Unchanged" ]
       ELSE IF "Backspace" \in keys THEN [ entry |-> pop(e), status |-> "Changed" ]
       ELSE IF "Delete" \in keys THEN [ entry |-> << >>, status |-> "Changed" ]
       ELSE IF "Escape" \in keys THEN [ entry |-> e, status |-> "Quit" ]
       ELSE LET n == keys_to_take(Len(e), limit, num_keys_up)
            IN [ entry  |-> push_keys(e, SubSeq(keys_iter, 1, n)),
                 status |-> "Changed" ]

\* a mutant of update_answer: the answer is never cleared
update_answer_keep(ans, m) ==
    IF m # None
    THEN IF Len(m[1]) = 1 THEN m[1][1] ELSE ans
    ELSE ans

\* main, the Changed arm: the answer after find_match returned m
update_answer(ans, m) ==
    IF m # None
    THEN IF Len(m[1]) = 1 THEN m[1][1] ELSE ans
    ELSE << >>

\* the orders in which the iterator of a HashSet may yield its elements
Orderings(S) ==
    { s \in [1..Cardinality(S) -> S] : \A i, j \in DOMAIN s : s[i] = s[j] => i = j }

----------------------------------------------------------------------------
(* Inputs *)

Letters == { 65, 66 }
Words == SeqsUpTo(Letters, MaxWordLen)
WordLists == SeqsUpTo(Words, MaxLines)

CanonLetters == 65..(64 + NumCanonLetters)
CanonWords == SeqsUpTo(CanonLetters, CanonMaxLen)

\* sample contents of dictionary/ENGLISH_US_4_TO_8.txt
Dictionaries ==
    { << <<65,65,65,66>>, <<65,65,66,66>>, <<65,66,65,66>> >>,
      << <<65,65,65,66>>, <<65,65,65,66,66>>, <<65,65,66,65,66>> >>,
      << <<65,66,66,65>>, <<65,66,66,65>>, <<66,66,66,66,66,66,66,66>> >> }

KeySets == { S \in SUBSET KeyCodes : Cardinality(S) <= MaxKeysUp }

----------------------------------------------------------------------------
(* Initial states *)

InitIndex == idx = 0 /\ word_map = << >>
InitQuery == queried = FALSE /\ q = << >> /\ minlen = 0 /\ maxlen = 0 /\ matches = None
InitEntry == entry = << >> /\ answer = << >> /\ entry_status = "Unchanged" /\ keys_up = {}
InitCanon == c_word = << >> /\ c_q = << >> /\ sorted_word = None /\ sorted_q = None

Init ==
    /\ words \in WordLists
    /\ InitIndex /\ InitQuery /\ InitEntry /\ InitCanon

MainInit ==
    /\ words \in Dictionaries
    /\ InitIndex /\ InitQuery /\ InitEntry /\ InitCanon

CanonInit ==
    /\ words = << >>
    /\ InitIndex /\ InitQuery /\ InitEntry
    /\ c_word \in CanonWords /\ c_q \in CanonWords
    /\ sorted_word = None /\ sorted_q = None

----------------------------------------------------------------------------
(* Actions *)

BuildDone == idx = Len(words)

\* make_word_map: one iteration of `for word in words.lines()`
MakeWordMapStep ==
    /\ idx < Len(words)
    /\ word_map' = make_word_map_line(word_map, words[idx + 1])
    /\ idx' = idx + 1
    /\ UNCHANGED << words, queryVars, mainVars, canonVars >>

\* a caller of the built index calls find_match
FindMatchCall ==
    /\ BuildDone
    /\ ~queried
    /\ \E query \in Words, lo \in 0..MaxWordLen, hi \in 0..MaxWordLen :
         \E r \in { find_match(word_map, query, lo, hi) } :
            /\ word_map' = r.self
            /\ matches' = r.ret
            /\ q' = query /\ minlen' = lo /\ maxlen' = hi
            /\ queried' = TRUE
    /\ UNCHANGED << words, idx, mainVars, canonVars >>

\* the caller drops the returned reference; the next call may follow
ReleaseMatches ==
    /\ queried
    /\ queried' = FALSE /\ q' = << >> /\ minlen' = 0 /\ maxlen' = 0 /\ matches' = None
    /\ UNCHANGED << indexVars, mainVars, canonVars >>

\* main: one iteration of the loop
MainLoopIter ==
    /\ BuildDone
    /\ entry_status # "Quit"
    /\ \E ks \in KeySets : \E keys_iter \in Orderings(ks) :
         \E h \in { handle_keyboard_input(entry, EntryMaxLen, keys_iter) } :
            /\ keys_up' = ks
            /\ entry' = h.entry
            /\ entry_status' = h.status
            /\ IF h.status = "Changed"
               THEN \E r \in { find_match(word_map, h.entry, MIN_WORD_LENGTH, MAX_WORD_LENGTH) } :
                       /\ word_map' = r.self
                       /\ matches' = r.ret
                       /\ q' = h.entry
                       /\ minlen' = MIN_WORD_LENGTH
                       /\ maxlen' = MAX_WORD_LENGTH
                       /\ queried' = TRUE
                       /\ answer' = update_answer(answer, r.ret)
               ELSE UNCHANGED << word_map, queryVars, answer >>
    /\ UNCHANGED << words, idx, canonVars >>

\* make_word_map, line 121
SortWord ==
    /\ sorted_word = None
    /\ sorted_word' = Some(sorted(c_word))
    /\ UNCHANGED << indexVars, queryVars, mainVars, c_word, c_q, sorted_q >>

\* find_match, line 54
SortQuery ==
    /\ sorted_q = None
    /\ sorted_q' = Some(sorted(c_q))
    /\ UNCHANGED << indexVars, queryVars, mainVars, c_word, c_q, sorted_word >>

Next == MakeWordMapStep \/ FindMatchCall \/ ReleaseMatches
MainNext == MakeWordMapStep \/ MainLoopIter
CanonNext == SortWord \/ SortQuery

Spec == Init /\ [][Next]_vars
MainSpec == MainInit /\ [][MainNext]_vars
CanonSpec == CanonInit /\ [][CanonNext]_vars

----------------------------------------------------------------------------
(* Properties *)

InRange == minlen <= Len(q) /\ Len(q) <= maxlen

\* the lines make_word_map has inserted so far
Inserted == SubSeq(words, 1, idx)

\* the positions of the lines of the word list that are permutations of w
PermutationLines(w) == { i \in 1..Len(words) : SameMultiset(words[i], w) }

\* C1 (group correctness): once the index is built from the word list, a call
\* find_match(w, 0, length(w)) for a word w that is a line of the list returns
\* Some group, and w is in that group.
C1_GroupCorrectness ==
    (queried /\ BuildDone /\ q \in Range(words) /\ minlen = 0 /\ maxlen = Len(q))
        => (matches # None /\ q \in Range(matches[1]))

\* a listed word whose letters are not in sorted order has been looked up
C1_Witness ==
    /\ queried /\ BuildDone /\ q \in Range(words) /\ minlen = 0 /\ maxlen = Len(q)
    /\ q # sorted(q)
    /\ matches # None

\* C2 (length gate): find_match returns None whenever the query is shorter
\* than minlen or longer than maxlen, also when its key is in the index; the
\* bounds are inclusive, so a query with minlen <= length <= maxlen gets
\* exactly what the index holds at its key.
C2_LengthGate ==
    queried =>
        /\ (Len(q) < minlen \/ Len(q) > maxlen) => matches = None
        /\ InRange =>
             matches = IF sorted(q) \in DOMAIN word_map
                       THEN Some(word_map[sorted(q)]) ELSE None

\* a query whose key is in the index was rejected for its length
C2_Witness ==
    /\ queried
    /\ Len(q) < minlen \/ Len(q) > maxlen
    /\ sorted(q) \in DOMAIN word_map
    /\ matches = None

\* C3 (exact anagram group): for a query within the bounds, find_match on the
\* built index returns Some group iff some line of the list is a permutation
\* of the query; the group then holds every line that is a permutation of the
\* query, once per line, and nothing else.
C3_ExactGroup ==
    (queried /\ BuildDone /\ InRange) =>
        /\ matches # None <=> PermutationLines(q) # {}
        /\ matches # None =>
             /\ Range(matches[1]) = { words[i] : i \in PermutationLines(q) }
             /\ Len(matches[1]) = Cardinality(PermutationLines(q))

\* a query found a group of two different words
C3_Witness ==
    /\ queried /\ BuildDone /\ InRange
    /\ matches # None
    /\ Len(matches[1]) >= 2
    /\ matches[1][1] # matches[1][2]

\* C4 (canonical key): the key of a dictionary line (make_word_map) equals the
\* key of a query (find_match) iff the two hold the same multiset of
\* characters; each key holds the same multiset of characters as its word, in
\* ascending order.
C4_CanonicalKey ==
    /\ (sorted_word # None /\ sorted_q # None) =>
         (sorted_word[1] = sorted_q[1] <=> SameMultiset(c_word, c_q))
    /\ sorted_word # None =>
         (SameMultiset(sorted_word[1], c_word) /\ IsAscending(sorted_word[1]))
    /\ sorted_q # None =>
         (SameMultiset(sorted_q[1], c_q) /\ IsAscending(sorted_q[1]))

\* two different words, neither of them sorted, got the same key
C4_Witness ==
    /\ sorted_word # None /\ sorted_q # None
    /\ c_word # c_q
    /\ sorted_word[1] = sorted_q[1]
    /\ sorted_word[1] # c_word /\ sorted_q[1] # c_q
    /\ Len(c_word) >= 3

\* C5 (answer policy): in the main loop a non-empty answer is shown only when
\* the lookup of the current entry, with bounds 4 and 10, yields exactly one
\* candidate, and it is that candidate; with no candidate or several the
\* answer is empty.
C5_AnswerPolicy ==
    BuildDone =>
        \A m \in { find_match(word_map, entry, MIN_WORD_LENGTH, MAX_WORD_LENGTH).ret } :
            /\ answer # << >> => (m # None /\ Len(m[1]) = 1 /\ answer = m[1][1])
            /\ (m = None \/ Len(m[1]) # 1) => answer = << >>

\* C6 (duplicates and order): at every step of make_word_map the keys of the
\* index are the keys of the inserted lines, and the group at a key is the
\* subsequence of the inserted lines with that key: every occurrence is kept,
\* in the order of the list.
C6_GroupIsSubsequence ==
    /\ DOMAIN word_map = { sorted(words[i]) : i \in 1..idx }
    /\ \A k \in DOMAIN word_map :
         word_map[k] = SelectSeq(Inserted, LAMBDA w : sorted(w) = k)

\* the built index holds a group with the same word twice
C6_Witness ==
    /\ BuildDone
    /\ \E k \in DOMAIN word_map :
         /\ Len(word_map[k]) >= 2
         /\ word_map[k][1] = word_map[k][2]

\* C7 (pure reads): no step after the build changes the index, and every call
\* of find_match returns what the same call returns on the index as built.
C7_PureRead ==
    [][ BuildDone =>
          /\ word_map' = word_map
          /\ queried' => matches' = find_match(make_word_map(words), q', minlen', maxlen').ret
      ]_vars

\* a call on a non-empty index found a group
C7_Witness ==
    /\ queried /\ BuildDone
    /\ matches # None
    /\ word_map = make_word_map(words)

\* C8 (clearing the answer): once a change has been processed and find_match
\* returned None, the answer is empty; that is the case whenever the entry is
\* shorter than 4 characters or no dictionary line is a permutation of it;
\* and after a frame handled as Delete the entry and the answer are empty.
C8_AnswerCleared ==
    /\ (queried /\ matches = None) => answer = << >>
    /\ (BuildDone /\ (Len(entry) < MIN_WORD_LENGTH \/ PermutationLines(entry) = {}))
         => answer = << >>
    /\ ("Delete" \in keys_up /\ "Backspace" \notin keys_up)
         => (entry = << >> /\ answer = << >> /\ matches = None)

\* a Delete was processed
C8_Witness ==
    /\ queried
    /\ "Delete" \in keys_up /\ "Backspace" \notin keys_up
    /\ entry = << >> /\ answer = << >>

\* C9 (entry bound): across every step the entry holds at most 8 characters
\* before and after, all of them in A-Z; it grows by at most
\* min(8 - length before, number of released keys); and a frame with no
\* released key reports Unchanged and leaves the entry as it was.
C9_EntryBound ==
    [][ /\ Len(entry) <= EntryMaxLen
        /\ Len(entry') <= EntryMaxLen
        /\ \A i \in DOMAIN entry' : entry'[i] \in 65..90
        /\ Len(entry') - Len(entry) <=
             Min(EntryMaxLen - Len(entry), Cardinality(keys_up'))
        /\ keys_up' = {} => (entry' = entry /\ entry_status' = "Unchanged")
      ]_vars

\* a full entry after a frame in which a letter key and another key were released
C9_Witness ==
    /\ Len(entry) = EntryMaxLen
    /\ keys_up = { "A", "Space" }
    /\ entry_status = "Changed"

\* C10 (well-formed index): at every step of make_word_map every key of the
\* index has a non-empty group whose words all have that key as canonical
\* form and the key's length; and find_match never returns an empty group.
C10_WellFormed ==
    /\ \A k \in DOMAIN word_map :
         /\ word_map[k] # << >>
         /\ \A j \in DOMAIN word_map[k] :
              /\ sorted(word_map[k][j]) = k
              /\ Len(word_map[k][j]) = Len(k)
    /\ (queried /\ matches # None) => matches[1] # << >>

\* make_word_map is halfway through and has inserted a word that is not sorted
C10_Witness ==
    /\ 0 < idx /\ idx < Len(words)
    /\ \E k \in DOMAIN word_map : \E j \in DOMAIN word_map[k] : word_map[k][j] # k

====
